---------------------------- MODULE Spec2Model ----------------------------
(***************************************************************************)
(* Planogram compliance engine (computer-vision/src/demo/backend).         *)
(*                                                                         *)
(* The module models                                                       *)
(*   - CoordinateSystem: the image <-> reference transforms,               *)
(*   - PlanogramConfig: load, add_section, remove_section and the lookups, *)
(*   - PlanogramAnalyzer: analyze_image and its stages,                    *)
(*   - DetailedInventoryStatus.get_item_breakdown.                         *)
(*                                                                         *)
(* Numbers.  Python floats are modelled by exact rationals.  A scale is a  *)
(* pair [num, den]; a point is [nx, ny, d] standing for (nx/d, ny/d).      *)
(* Where the float result can differ from the rational one (a product or a *)
(* quotient whose exact value is an integer, computed with a scale that is *)
(* not exactly representable in binary), int() of it is modelled as either *)
(* that integer or the integer below it.                                   *)
(***************************************************************************)
EXTENDS Integers, Sequences, FiniteSets, TLC

VARIABLES
    coord,      \* CoordinateSystem round trip: the image, the box and its images
    inv,        \* a DetailedInventoryStatus object and its last get_item_breakdown()
    config,     \* PlanogramAnalyzer.config (None, or a PlanogramConfig)
    call,       \* the most recent call on the engine: operation, arguments, outcome
    run         \* locals and return value of the most recent analyze_image()

vars == <<coord, inv, config, call, run>>

----------------------------------------------------------------------------
(* Bounds of the model *)

MaxCoord == 6        \* largest box coordinate drawn in original pixels
MaxSections == 2     \* longest section list built
MaxItems == 2        \* most detections in one image
MaxCount == 2        \* largest per-type count given to get_item_breakdown

(* Program constants *)

REFERENCE_WIDTH == 1080
REFERENCE_HEIGHT == 1440

----------------------------------------------------------------------------
(* Arithmetic helpers *)

Min(a, b) == IF a <= b THEN a ELSE b
Max(a, b) == IF a >= b THEN a ELSE b
Abs(a) == IF a >= 0 THEN a ELSE -a

RECURSIVE GCD(_, _)
GCD(a, b) == IF b = 0 THEN a ELSE GCD(b, a % b)

RECURSIVE IsPow2(_)
IsPow2(n) == IF n = 1 THEN TRUE ELSE IF n % 2 = 1 THEN FALSE ELSE IsPow2(n \div 2)

\* Python int(): truncation toward zero of the rational n/d, d > 0.
Trunc(n, d) == IF n >= 0 THEN n \div d ELSE -((-n) \div d)

\* Python floor division a // b for b > 0.
FloorDiv(a, b) == a \div b

\* A float holds num/den exactly iff the reduced denominator is a power of two
\* (the numerators here are far below 2^53).
FloatExact(s) == IsPow2(s.den \div GCD(s.num, s.den))

\* int(x * scale) for an integer x >= 0: the possible values.
IntOfProduct(x, s) ==
    LET n == x * s.num
    IN  IF n % s.den = 0 /\ ~FloatExact(s) /\ n > 0
        THEN {n \div s.den, (n \div s.den) - 1}
        ELSE {Trunc(n, s.den)}

\* int(k / scale) for an integer k: the possible values.
IntOfQuotient(k, s) ==
    LET n == k * s.den
    IN  IF n % s.num = 0 /\ ~FloatExact(s) /\ n > 0
        THEN {n \div s.num, (n \div s.num) - 1}
        ELSE {Trunc(n, s.num)}

----------------------------------------------------------------------------
(* BoundingBox, models.py *)

BoundingBox(x1, y1, x2, y2) == [x1 |-> x1, y1 |-> y1, x2 |-> x2, y2 |-> y2]

\* BoundingBox.center: ((x1 + x2) / 2, (y1 + y2) / 2)
bbox_center(b) == [nx |-> b.x1 + b.x2, ny |-> b.y1 + b.y2, d |-> 2]

----------------------------------------------------------------------------
(* CoordinateSystem, coordinate_system.py *)

\* scale = min(REFERENCE_WIDTH / w, REFERENCE_HEIGHT / h)
scale_of(image) ==
    IF REFERENCE_WIDTH * image.h <= REFERENCE_HEIGHT * image.w
    THEN [num |-> REFERENCE_WIDTH, den |-> image.w]
    ELSE [num |-> REFERENCE_HEIGHT, den |-> image.h]

\* The transforms image_to_reference_transform can return.
image_to_reference_transform(image) ==
    LET scale == scale_of(image)
    IN  { [scale |-> scale,
           offset_x |-> FloorDiv(REFERENCE_WIDTH - sw, 2),
           offset_y |-> FloorDiv(REFERENCE_HEIGHT - sh, 2),
           scaled_width |-> sw,
           scaled_height |-> sh] :
          sw \in IntOfProduct(image.w, scale), sh \in IntOfProduct(image.h, scale) }

\* The boxes original_to_reference(bbox, image) can return.
original_to_reference(bbox, image) ==
    UNION { { BoundingBox(x1 + t.offset_x, y1 + t.offset_y,
                          x2 + t.offset_x, y2 + t.offset_y) :
              x1 \in IntOfProduct(bbox.x1, t.scale),
              y1 \in IntOfProduct(bbox.y1, t.scale),
              x2 \in IntOfProduct(bbox.x2, t.scale),
              y2 \in IntOfProduct(bbox.y2, t.scale) } :
            t \in image_to_reference_transform(image) }

\* A reference_to_original that divides by the scale without first removing
\* the letterbox offset.
reference_to_original_keeping_offset(bbox, image) ==
    UNION { { BoundingBox(x1, y1, x2, y2) :
              x1 \in IntOfQuotient(bbox.x1, t.scale),
              y1 \in IntOfQuotient(bbox.y1, t.scale),
              x2 \in IntOfQuotient(bbox.x2, t.scale),
              y2 \in IntOfQuotient(bbox.y2, t.scale) } :
            t \in image_to_reference_transform(image) }

\* The boxes reference_to_original(bbox, image) can return.
reference_to_original(bbox, image) ==
    UNION { { BoundingBox(x1, y1, x2, y2) :
              x1 \in IntOfQuotient(bbox.x1 - t.offset_x, t.scale),
              y1 \in IntOfQuotient(bbox.y1 - t.offset_y, t.scale),
              x2 \in IntOfQuotient(bbox.x2 - t.offset_x, t.scale),
              y2 \in IntOfQuotient(bbox.y2 - t.offset_y, t.scale) } :
            t \in image_to_reference_transform(image) }


----------------------------------------------------------------------------
(* Round trip of a box through the reference frame *)

\* Image sizes (w, h) the round trip is run on: the reference size itself,
\* smaller images (scale > 1, with and without letterbox offsets, with and
\* without an exactly representable scale) and larger ones (scale < 1).
ImageSizes ==
    { [w |-> 1080, h |-> 1440], [w |-> 540, h |-> 720], [w |-> 3, h |-> 4],
      [w |-> 7, h |-> 35], [w |-> 360, h |-> 1440], [w |-> 1800, h |-> 1440],
      [w |-> 2160, h |-> 2880], [w |-> 4320, h |-> 5760] }

\* Boxes in the original pixel coordinates of an image: x1 < x2, y1 < y2,
\* inside the image.
BoxesOf(image) ==
    { b \in [x1 : 0..Min(MaxCoord, image.w), y1 : 0..Min(MaxCoord, image.h),
             x2 : 0..Min(MaxCoord, image.w), y2 : 0..Min(MaxCoord, image.h)] :
        b.x1 < b.x2 /\ b.y1 < b.y2 }

ZeroBox == BoundingBox(0, 0, 0, 0)

CoordIdle == [pc |-> "idle", image |-> [w |-> 1080, h |-> 1440],
              bbox |-> ZeroBox, ref |-> ZeroBox, back |-> ZeroBox]

CoordInputs ==
    UNION { { [pc |-> "input", image |-> image, bbox |-> b,
               ref |-> ZeroBox, back |-> ZeroBox] : b \in BoxesOf(image) } :
            image \in ImageSizes }

\* ref = CoordinateSystem.original_to_reference(bbox, image)
OriginalToReference ==
    /\ coord.pc = "input"
    /\ \E r \in original_to_reference(coord.bbox, coord.image) :
          coord' = [coord EXCEPT !.pc = "reference", !.ref = r]
    /\ UNCHANGED <<inv, config, call, run>>

\* back = CoordinateSystem.reference_to_original(ref, image)
ReferenceToOriginal ==
    /\ coord.pc = "reference"
    /\ \E b \in reference_to_original(coord.ref, coord.image) :
          coord' = [coord EXCEPT !.pc = "original", !.back = b]
    /\ UNCHANGED <<inv, config, call, run>>

----------------------------------------------------------------------------
(* Python objects *)

None == "None"

\* Outcome of calling a dataclass constructor with keyword arguments kwargs:
\* an unexpected keyword or a missing required field raises TypeError.
dataclass_init(fields, required, kwargs) ==
    IF ~(kwargs \subseteq fields) \/ ~(required \subseteq kwargs)
    THEN "TypeError" ELSE ""

\* dict.get(key, 0)
dict_get(d, key) == IF key \in DOMAIN d THEN d[key] ELSE 0

EmptyDict == [k \in {} |-> 0]

RECURSIVE SumOver(_, _)
\* sum(d[k] for k in keys)
SumOver(d, keys) ==
    IF keys = {} THEN 0
    ELSE LET k == CHOOSE x \in keys : TRUE IN d[k] + SumOver(d, keys \ {k})

\* sum(d.values())
dict_sum(d) == SumOver(d, DOMAIN d)

----------------------------------------------------------------------------
(* PlanogramSection, models.py *)

PlanogramSection_fields ==
    {"section_id", "name", "expected_items", "expected_count", "position", "priority"}

PlanogramSection_required ==
    {"section_id", "name", "expected_items", "expected_count", "position"}

PlanogramSection(section_id, name, expected_items, expected_count, position, priority) ==
    [section_id |-> section_id, name |-> name, expected_items |-> expected_items,
     expected_count |-> expected_count, position |-> position, priority |-> priority]

\* The keyword arguments _parse_config passes to PlanogramSection(...)
parse_config_kwargs ==
    {"section_id", "name", "expected_items", "expected_count",
     "expected_visible_count", "position", "priority"}

----------------------------------------------------------------------------
(* Sections, documents and points the engine is driven with *)

SectionIds == {"S1", "S2"}
ItemClasses == {"cereal", "soda_can"}
ExpectedItemLists == {<<"cereal">>, <<"soda_can">>, <<"cereal", "soda_can">>}

\* Regions in reference coordinates; the first two overlap for 2 <= x <= 4.
\* Their centers are (2, 2), (5, 2) and (8.5, 2).
Regions == {BoundingBox(0, 0, 4, 4), BoundingBox(2, 0, 8, 4), BoundingBox(8, 0, 9, 4)}

SectionPool ==
    { PlanogramSection(id, id, items, 3, pos, "Medium") :
        id \in SectionIds, items \in ExpectedItemLists, pos \in Regions }

NoSection == PlanogramSection(None, None, <<>>, 0, ZeroBox, "Medium")

\* section_data of a configuration document; has_visible tells whether the
\* optional key expected_visible_count is present.
SectionData(id, items, count, has_visible, visible, pos) ==
    [section_id |-> id, name |-> id, expected_items |-> items, expected_count |-> count,
     has_visible |-> has_visible, expected_visible_count |-> visible,
     position |-> pos, priority |-> "Medium"]

\* Configuration sources: a missing file, a file that is not JSON, and
\* documents with no section, one section (with and without
\* expected_visible_count), two sections sharing a section_id, two sections
\* with different ids.
Docs ==
    << [file |-> "missing", sections |-> <<>>],
       [file |-> "invalid", sections |-> <<>>],
       [file |-> "ok", sections |-> <<>>],
       [file |-> "ok", sections |->
          << SectionData("S1", <<"cereal">>, 3, FALSE, 0, BoundingBox(0, 0, 4, 4)) >>],
       [file |-> "ok", sections |->
          << SectionData("S1", <<"cereal">>, 3, TRUE, 2, BoundingBox(0, 0, 4, 4)) >>],
       [file |-> "ok", sections |->
          << SectionData("S1", <<"cereal">>, 3, TRUE, 2, BoundingBox(0, 0, 4, 4)),
             SectionData("S1", <<"soda_can">>, 3, TRUE, 3, BoundingBox(8, 0, 9, 4)) >>],
       [file |-> "ok", sections |->
          << SectionData("S1", <<"cereal">>, 3, FALSE, 0, BoundingBox(0, 0, 4, 4)),
             SectionData("S2", <<"soda_can">>, 3, TRUE, 3, BoundingBox(8, 0, 9, 4)) >>] >>

\* Points looked up with find_section_by_position.
Points == { [nx |-> x, ny |-> y, d |-> 1] : x \in {1, 3, 5, 7, 9}, y \in {2, 5} }

ZeroPoint == [nx |-> 0, ny |-> 0, d |-> 1]

----------------------------------------------------------------------------
(* PlanogramConfig, config.py *)

\* bbox.x1 <= x <= bbox.x2 and bbox.y1 <= y <= bbox.y2, for the point p
point_in_bbox(p, bbox) ==
    /\ bbox.x1 * p.d <= p.nx /\ p.nx <= bbox.x2 * p.d
    /\ bbox.y1 * p.d <= p.ny /\ p.ny <= bbox.y2 * p.d

section_ids(sections) == { sections[i].section_id : i \in 1..Len(sections) }

RECURSIVE parse_sections(_, _)
\* The loop of _parse_config over the remaining section_data, acc being
\* self.sections so far: [sections, raised].
parse_sections(datas, acc) ==
    IF datas = <<>> THEN [sections |-> acc, raised |-> ""]
    ELSE LET sd == Head(datas)
             err == dataclass_init(PlanogramSection_fields, PlanogramSection_required,
                                   parse_config_kwargs)
         IN  IF err # "" THEN [sections |-> acc, raised |-> err]
             ELSE parse_sections(Tail(datas),
                    Append(acc, PlanogramSection(sd.section_id, sd.name, sd.expected_items,
                                                 sd.expected_count, sd.position, sd.priority)))

\* PlanogramConfig._parse_config(config_data): self.sections afterwards and
\* the exception raised, if any.
parse_config(doc) == parse_sections(doc.sections, <<>>)

\* PlanogramConfig.load_from_file on a configuration whose sections are
\* `sections`: [sections, raised].
load_from_file(sections, doc) ==
    IF doc.file = "missing" THEN [sections |-> sections, raised |-> "FileNotFoundError"]
    ELSE IF doc.file = "invalid" THEN [sections |-> sections, raised |-> "ValueError"]
    ELSE parse_config(doc)

\* An add_section that appends without looking at the ids already present.
add_section_unchecked(sections, section) ==
    [sections |-> Append(sections, section), raised |-> ""]

\* PlanogramConfig.add_section: [sections, raised]
add_section(sections, section) ==
    IF section.section_id \in section_ids(sections)
    THEN [sections |-> sections, raised |-> "ValueError"]
    ELSE [sections |-> Append(sections, section), raised |-> ""]

\* PlanogramConfig.remove_section: [sections, ret]
remove_section(sections, section_id) ==
    LET kept == SelectSeq(sections, LAMBDA s : s.section_id # section_id)
    IN  [sections |-> kept, ret |-> Len(kept) < Len(sections)]

\* PlanogramConfig.get_sections_for_item: the sections listing item_class,
\* in declaration order.
get_sections_for_item(sections, item_class) ==
    SelectSeq(sections,
              LAMBDA s : \E i \in 1..Len(s.expected_items) : s.expected_items[i] = item_class)

\* A scan that keeps the last section containing the point instead of
\* returning at the first.
find_last_from(sections, p, i) ==
    LET hits == { j \in i..Len(sections) : point_in_bbox(p, sections[j].position) }
    IN  IF hits = {} THEN 0 ELSE CHOOSE j \in hits : \A k \in hits : k <= j

RECURSIVE find_from(_, _, _)
\* The scan of find_section_by_position from position i on: the index of the
\* section returned, 0 for None.
find_from(sections, p, i) ==
    IF i > Len(sections) THEN 0
    ELSE IF point_in_bbox(p, sections[i].position) THEN i
    ELSE find_from(sections, p, i + 1)

\* PlanogramConfig.find_section_by_position(x, y)
find_section_by_position(sections, p) == find_from(sections, p, 1)

\* One entry of the list validate_configuration returns: the kind of issue
\* and the section id its text names
Issue(kind, section_id) == [kind |-> kind, section_id |-> section_id]

\* The issues the loop body of validate_configuration appends for one
\* section, section_ids being the ids of the sections before it
section_issues(section, seen) ==
    (IF section.section_id \in seen
     THEN << Issue("Duplicate section ID", section.section_id) >> ELSE <<>>)
    \o (IF section.expected_items = <<>>
        THEN << Issue("has no expected items", section.section_id) >> ELSE <<>>)
    \o (IF section.expected_count <= 0
        THEN << Issue("has invalid expected count", section.section_id) >> ELSE <<>>)
    \o (IF section.position.x1 >= section.position.x2
           \/ section.position.y1 >= section.position.y2
        THEN << Issue("has invalid bounding box", section.section_id) >> ELSE <<>>)

RECURSIVE validate_marking_first(_, _, _)
\* A loop that adds the id to section_ids before testing it.
validate_marking_first(sections, i, seen) ==
    IF i > Len(sections) THEN <<>>
    ELSE section_issues(sections[i], seen \cup {sections[i].section_id})
            \o validate_marking_first(sections, i + 1,
                                      seen \cup {sections[i].section_id})

RECURSIVE validate_from(_, _, _)
\* The loop of validate_configuration from position i on
validate_from(sections, i, seen) ==
    IF i > Len(sections) THEN <<>>
    ELSE section_issues(sections[i], seen)
            \o validate_from(sections, i + 1, seen \cup {sections[i].section_id})

\* PlanogramConfig.validate_configuration: the list of issues
validate_configuration(sections) ==
    (IF sections = <<>>
     THEN << Issue("No sections defined in configuration", None) >> ELSE <<>>)
    \o validate_from(sections, 1, {})


----------------------------------------------------------------------------
(* DetectedItem and MisplacedItem, models.py *)

DetectedItem(class_name, bbox, mask_polygon, section_id) ==
    [class_name |-> class_name, bbox |-> bbox, mask_polygon |-> mask_polygon,
     section_id |-> section_id]

RECURSIVE SumX(_)
SumX(poly) == IF poly = <<>> THEN 0 ELSE Head(poly).x + SumX(Tail(poly))

RECURSIVE SumY(_)
SumY(poly) == IF poly = <<>> THEN 0 ELSE Head(poly).y + SumY(Tail(poly))

\* DetectedItem._calculate_polygon_centroid: the mean of the polygon's points
polygon_centroid(item) ==
    [nx |-> SumX(item.mask_polygon), ny |-> SumY(item.mask_polygon),
     d |-> Len(item.mask_polygon)]

\* A center that is the center of the bounding box whatever the polygon.
center_of_box(item) == bbox_center(item.bbox)

\* DetectedItem.center: the polygon centroid when the polygon has at least
\* three points, else the center of the bounding box
center(item) ==
    IF Len(item.mask_polygon) >= 3 THEN polygon_centroid(item)
    ELSE bbox_center(item.bbox)

MisplacedItem(detected_item, expected_section, actual_section, distance_from_expected) ==
    [detected_item |-> detected_item, expected_section |-> expected_section,
     actual_section |-> actual_section,
     distance_from_expected |-> distance_from_expected]

----------------------------------------------------------------------------
(* Detection normalisation, coordinate_system.py and planogram_analyzer.py *)

\* The reference points one polygon point can be mapped to.
normalize_point(pt, image) ==
    UNION { { [x |-> rx + t.offset_x, y |-> ry + t.offset_y] :
              rx \in IntOfProduct(pt.x, t.scale), ry \in IntOfProduct(pt.y, t.scale) } :
            t \in image_to_reference_transform(image) }

RECURSIVE normalize_polygon(_, _)
normalize_polygon(poly, image) ==
    IF poly = <<>> THEN {<<>>}
    ELSE { <<pt>> \o rest :
             pt \in normalize_point(Head(poly), image),
             rest \in normalize_polygon(Tail(poly), image) }

normalize_detection(det, image) ==
    { [class_name |-> det.class_name, bbox |-> rb, mask_polygon |-> q] :
        rb \in original_to_reference(det.bbox, image),
        q \in normalize_polygon(det.mask_polygon, image) }

RECURSIVE normalize_detection_coordinates(_, _)
\* CoordinateSystem.normalize_detection_coordinates: the lists it can return.
normalize_detection_coordinates(detections, image) ==
    IF detections = <<>> THEN {<<>>}
    ELSE { <<n>> \o rest :
             n \in normalize_detection(Head(detections), image),
             rest \in normalize_detection_coordinates(Tail(detections), image) }

\* PlanogramAnalyzer._run_object_detection: the item lists it can return,
\* `ready` being inference_layer.is_ready() and `detections` what infer() gives.
run_object_detection(ready, detections, image) ==
    IF ~ready THEN {<<>>}
    ELSE { [i \in 1..Len(n) |-> DetectedItem(n[i].class_name, n[i].bbox,
                                             n[i].mask_polygon, None)] :
           n \in normalize_detection_coordinates(detections, image) }

----------------------------------------------------------------------------
(* Section assignment and misplacement, planogram_analyzer.py *)

\* An assignment to the section whose region center is nearest to the item,
\* whether or not the region contains it.
assign_items_to_nearest(sections, items) ==
    [i \in 1..Len(items) |->
        LET p == center(items[i])
            d2(k) == LET dx == 2 * p.nx - p.d * (sections[k].position.x1
                                                   + sections[k].position.x2)
                         dy == 2 * p.ny - p.d * (sections[k].position.y1
                                                   + sections[k].position.y2)
                     IN  dx * dx + dy * dy
        IN  [items[i] EXCEPT !.section_id =
                IF sections = <<>> THEN None
                ELSE sections[CHOOSE k \in 1..Len(sections) :
                                 \A j \in 1..Len(sections) :
                                    d2(k) < d2(j) \/ (d2(k) = d2(j) /\ k <= j)].section_id]]

\* PlanogramAnalyzer._assign_items_to_sections: the items with section_id set
assign_items_to_sections(sections, items) ==
    [i \in 1..Len(items) |->
        LET k == find_section_by_position(sections, center(items[i]))
        IN  [items[i] EXCEPT !.section_id =
                IF k = 0 THEN None ELSE sections[k].section_id]]

\* PlanogramAnalyzer._point_in_section
point_in_section(p, section) == point_in_bbox(p, section.position)

\* The square of the distance from p to the center of the section's region,
\* times (2 * p.d)^2.
distance2(p, section) ==
    LET dx == 2 * p.nx - p.d * (section.position.x1 + section.position.x2)
        dy == 2 * p.ny - p.d * (section.position.y1 + section.position.y2)
    IN  dx * dx + dy * dy

RECURSIVE closest_from(_, _, _, _)
\* The loop of _find_closest_expected_section from position i on, `best`
\* being the index of closest_section so far (0: none, min_distance = inf).
closest_from(p, expected_sections, i, best) ==
    IF i > Len(expected_sections) THEN best
    ELSE IF best = 0 \/ distance2(p, expected_sections[i]) < distance2(p, expected_sections[best])
         THEN closest_from(p, expected_sections, i + 1, i)
         ELSE closest_from(p, expected_sections, i + 1, best)

\* PlanogramAnalyzer._find_closest_expected_section: an index, 0 for None
find_closest_expected_section(p, expected_sections) ==
    closest_from(p, expected_sections, 1, 0)

\* A misplacement test that does not skip the items whose class no section
\* lists.
is_misplaced_ungoverned(sections, item) ==
    LET expected_sections == get_sections_for_item(sections, item.class_name)
    IN  ~\E i \in 1..Len(expected_sections) :
            point_in_section(center(item), expected_sections[i])

\* A misplacement test that looks at the closest expected section only.
is_misplaced_by_closest(sections, item) ==
    LET expected_sections == get_sections_for_item(sections, item.class_name)
        k == find_closest_expected_section(center(item), expected_sections)
    IN  /\ expected_sections # <<>>
        /\ ~point_in_section(center(item), expected_sections[k])

\* Whether _find_misplaced_items reports the item
is_misplaced(sections, item) ==
    LET expected_sections == get_sections_for_item(sections, item.class_name)
    IN  /\ expected_sections # <<>>
        /\ ~\E i \in 1..Len(expected_sections) :
               point_in_section(center(item), expected_sections[i])

\* The MisplacedItem _find_misplaced_items builds for a misplaced item
misplaced_of(sections, item) ==
    LET expected_sections == get_sections_for_item(sections, item.class_name)
        k == find_closest_expected_section(center(item), expected_sections)
    IN  MisplacedItem(item,
                      IF k = 0 THEN "Unknown" ELSE expected_sections[k].section_id,
                      item.section_id, 0)

\* DetectedItem.to_dict: the row of a detected item (class and confidence
\* columns as far as the items here carry them); center_x, center_y are
\* self.center
DetectedItem_to_dict(item) ==
    [class_name |-> item.class_name,
     x1 |-> item.bbox.x1, y1 |-> item.bbox.y1,
     x2 |-> item.bbox.x2, y2 |-> item.bbox.y2,
     center |-> center(item),
     section_id |-> item.section_id]

\* MisplacedItem.to_dict: the row of a misplaced item; center_x, center_y are
\* self.detected_item.bbox.center.  round(., 2) leaves the distance 0.0 as
\* it is.
MisplacedItem_to_dict(m) ==
    [item_class |-> m.detected_item.class_name,
     expected_section |-> m.expected_section,
     actual_section |-> IF m.actual_section \in {None, ""} THEN "Unknown"
                        ELSE m.actual_section,
     distance_from_expected |-> m.distance_from_expected,
     center |-> bbox_center(m.detected_item.bbox)]

RECURSIVE find_misplaced_items(_, _)
\* PlanogramAnalyzer._find_misplaced_items
find_misplaced_items(sections, detected_items) ==
    IF detected_items = <<>> THEN <<>>
    ELSE LET item == Head(detected_items)
             rest == find_misplaced_items(sections, Tail(detected_items))
         IN  IF is_misplaced(sections, item)
             THEN <<misplaced_of(sections, item)>> \o rest
             ELSE rest


----------------------------------------------------------------------------
(* DetailedInventoryStatus, models.py *)

DetailedInventoryStatus_fields ==
    {"section_id", "section_name", "expected_items", "detected_items",
     "misplaced_items", "status", "item_statuses"}

\* The orders in which Python may iterate over a set
Orders(S) ==
    { f \in [1..Cardinality(S) -> S] :
        \A i, j \in 1..Cardinality(S) : i # j => f[i] # f[j] }

\* A status chain whose "Partially Misplaced" test leaves out
\* available_total >= expected.
availability_status_any_shortfall(expected, detected, misplaced) ==
    LET available_total == detected + misplaced
    IN  IF expected > 0
        THEN IF available_total = 0 THEN "Sold Out"
             ELSE IF detected = 0 /\ misplaced > 0 THEN "Misplaced Only"
             ELSE IF detected < expected THEN "Partially Misplaced"
             ELSE "Available"
        ELSE "Not Expected"

\* The availability status get_item_breakdown gives to one item type
availability_status(expected, detected, misplaced) ==
    LET available_total == detected + misplaced
    IN  IF expected > 0
        THEN IF available_total = 0 THEN "Sold Out"
             ELSE IF detected = 0 /\ misplaced > 0 THEN "Misplaced Only"
             ELSE IF detected < expected /\ available_total >= expected
                  THEN "Partially Misplaced"
             ELSE "Available"
        ELSE "Not Expected"

\* The entry get_item_breakdown appends for item_type
breakdown_entry(status, item_type) ==
    LET expected == dict_get(status.expected_items, item_type)
        detected == dict_get(status.detected_items, item_type)
        misplaced == dict_get(status.misplaced_items, item_type)
        available_total == detected + misplaced
    IN  [item_type |-> item_type,
         expected |-> expected,
         detected_in_section |-> detected,
         found_elsewhere |-> misplaced,
         total_available |-> available_total,
         status |-> IF item_type \in DOMAIN status.item_statuses
                    THEN status.item_statuses[item_type] ELSE "Unknown",
         availability_status |-> availability_status(expected, detected, misplaced),
         shortage |-> Max(0, expected - available_total),
         surplus |-> Max(0, available_total - expected)]

all_item_types(status) ==
    DOMAIN status.expected_items \cup DOMAIN status.detected_items
        \cup DOMAIN status.misplaced_items

\* DetailedInventoryStatus.get_item_breakdown: the lists it can return (one
\* entry per item type, in the iteration order of the set of types).
get_item_breakdown(status) ==
    { [i \in 1..Len(o) |-> breakdown_entry(status, o[i])] :
        o \in Orders(all_item_types(status)) }

\* DetailedInventoryStatus.total_expected / total_detected / total_misplaced
total_expected(status) == dict_sum(status.expected_items)
total_detected(status) == dict_sum(status.detected_items)
total_misplaced(status) == dict_sum(status.misplaced_items)

----------------------------------------------------------------------------
(* Inventory classifier, planogram_analyzer.py *)

\* section_item_counts.get(section_id, {}): detected items per type among
\* those assigned to section_id
detected_counts(detected_items, section_id) ==
    LET here == { i \in 1..Len(detected_items) :
                    /\ detected_items[i].section_id \notin {None, ""}
                    /\ detected_items[i].section_id = section_id }
    IN  [t \in { detected_items[i].class_name : i \in here } |->
            Cardinality({ i \in here : detected_items[i].class_name = t })]

\* misplaced_counts.get(section_id, {}): misplaced items per type among those
\* whose expected_section is section_id
misplaced_counts(misplaced_items, section_id) ==
    LET here == { i \in 1..Len(misplaced_items) :
                    misplaced_items[i].expected_section = section_id }
    IN  [t \in { misplaced_items[i].detected_item.class_name : i \in here } |->
            Cardinality({ i \in here : misplaced_items[i].detected_item.class_name = t })]

\* The dict built by the enumerate loop: type i (from 0) gets base + 1 when
\* i < remainder; a type listed twice keeps the value of its last position.
split_counts(item_list, total) ==
    LET n == Len(item_list)
        base_count == total \div n
        remainder == total % n
    IN  [t \in { item_list[i] : i \in 1..n } |->
            LET last == CHOOSE i \in 1..n :
                          /\ item_list[i] = t
                          /\ \A j \in 1..n : item_list[j] = t => j <= i
            IN  base_count + (IF last - 1 < remainder THEN 1 ELSE 0)]

\* The keyword arguments _calculate_detailed_inventory_status passes to
\* DetailedInventoryStatus(...)
inventory_status_kwargs ==
    {"section_id", "section_name", "expected_items", "expected_visible_items",
     "detected_items", "misplaced_items"}

RECURSIVE inventory_from(_, _, _, _, _)
\* The loop over self.config.sections from position i on, acc being
\* detailed_status so far: [value, raised].
inventory_from(sections, detected_items, misplaced_items, i, acc) ==
    IF i > Len(sections) THEN [value |-> acc, raised |-> ""]
    ELSE
      LET section == sections[i]
          n == Len(section.expected_items)
          ctor == dataclass_init(DetailedInventoryStatus_fields,
                                 DetailedInventoryStatus_fields, inventory_status_kwargs)
      IN  IF n > 0 /\ "expected_visible_count" \notin DOMAIN section
          THEN [value |-> acc, raised |-> "AttributeError"]
          ELSE IF ctor # "" THEN [value |-> acc, raised |-> ctor]
          ELSE inventory_from(sections, detected_items, misplaced_items, i + 1,
                 Append(acc,
                   [section_id |-> section.section_id,
                    section_name |-> section.name,
                    expected_items |->
                       IF n > 0 THEN split_counts(section.expected_items, section.expected_count)
                       ELSE EmptyDict,
                    expected_visible_items |->
                       IF n > 0 THEN split_counts(section.expected_items,
                                                  section.expected_visible_count)
                       ELSE EmptyDict,
                    detected_items |-> detected_counts(detected_items, section.section_id),
                    misplaced_items |-> misplaced_counts(misplaced_items, section.section_id)]))

\* PlanogramAnalyzer._calculate_detailed_inventory_status: [value, raised]
calculate_detailed_inventory_status(sections, detected_items, misplaced_items) ==
    inventory_from(sections, detected_items, misplaced_items, 1, <<>>)


----------------------------------------------------------------------------
(* Task generation, planogram_analyzer.py *)

Task(task_id, description, section_id, priority, task_type, estimated_time) ==
    [task_id |-> task_id, description |-> description, section_id |-> section_id,
     priority |-> priority, task_type |-> task_type, estimated_time |-> estimated_time]

\* Relocate tasks in which equal misplaced items share one task.
relocate_tasks_merged(misplaced_items) ==
    LET firsts == SelectSeq([i \in 1..Len(misplaced_items) |-> i],
                            LAMBDA i : \A j \in 1..(i - 1) :
                                          misplaced_items[j] # misplaced_items[i])
    IN  [n \in 1..Len(firsts) |->
            LET item == misplaced_items[firsts[n]]
            IN  [task_id |-> <<"RELOCATE", n>>,
                 description |-> <<"Move", item.detected_item.class_name, "from",
                                   IF item.actual_section \in {None, ""} THEN "unknown"
                                   ELSE item.actual_section,
                                   "to", item.expected_section>>,
                 section_id |-> item.expected_section, priority |-> "Medium",
                 task_type |-> "Relocate", estimated_time |-> 5]]

\* The Relocate tasks, one per misplaced item, numbered from 1
relocate_tasks(misplaced_items) ==
    [i \in 1..Len(misplaced_items) |->
        LET item == misplaced_items[i]
        IN  Task(<<"RELOCATE", i>>,
                 <<"Move", item.detected_item.class_name, "from",
                   IF item.actual_section \in {None, ""} THEN "unknown"
                   ELSE item.actual_section,
                   "to", item.expected_section>>,
                 item.expected_section, "Medium", "Relocate", 5)]

\* An inner loop body whose Check branch leaves out "Partially Misplaced".
entry_task_misplaced_only(section_status, entry, task_counter) ==
    LET status == entry.availability_status
    IN  IF status = "Sold Out" \/ status = "Low Stock"
        THEN << [task_id |-> <<"RESTOCK", task_counter>>,
                 description |-> <<"Restock", entry.item_type, "in",
                                   section_status.section_name, status>>,
                 section_id |-> section_status.section_id,
                 priority |-> IF status = "Sold Out" THEN "High" ELSE "Medium",
                 task_type |-> "Restock", estimated_time |-> 10] >>
        ELSE IF status = "Misplaced Only"
        THEN << [task_id |-> <<"CHECK", task_counter>>,
                 description |-> <<"Check for misplaced", entry.item_type, "for section",
                                   section_status.section_name>>,
                 section_id |-> section_status.section_id, priority |-> "Medium",
                 task_type |-> "Check", estimated_time |-> 7] >>
        ELSE <<>>

\* The task the inner loop of _generate_tasks appends for one breakdown
\* entry, as a list of zero or one task
entry_task(section_status, entry, task_counter) ==
    LET status == entry.availability_status
    IN  IF status = "Sold Out" \/ status = "Low Stock"
        THEN << Task(<<"RESTOCK", task_counter>>,
                     <<"Restock", entry.item_type, "in", section_status.section_name, status>>,
                     section_status.section_id,
                     IF status = "Sold Out" THEN "High" ELSE "Medium", "Restock", 10) >>
        ELSE IF status = "Misplaced Only" \/ status = "Partially Misplaced"
        THEN << Task(<<"CHECK", task_counter>>,
                     <<"Check for misplaced", entry.item_type, "for section",
                       section_status.section_name>>,
                     section_status.section_id, "Medium", "Check", 7) >>
        ELSE IF status = "Overstock"
        THEN << Task(<<"REMOVE", task_counter>>,
                     <<"Remove excess", entry.item_type, "from", section_status.section_name>>,
                     section_status.section_id, "Low", "Remove", 5) >>
        ELSE IF status = "Unexpected Item"
        THEN << Task(<<"REMOVE", task_counter>>,
                     <<"Remove unexpected item", entry.item_type, "from",
                       section_status.section_name>>,
                     section_status.section_id, "Medium", "Remove", 5) >>
        ELSE <<>>

RECURSIVE entries_tasks(_, _, _)
\* The inner loop over one section's breakdown
entries_tasks(section_status, entries, task_counter) ==
    IF entries = <<>> THEN <<>>
    ELSE LET t == entry_task(section_status, Head(entries), task_counter)
         IN  t \o entries_tasks(section_status, Tail(entries), task_counter + Len(t))

RECURSIVE inventory_tasks(_, _, _, _)
\* The outer loop over detailed_inventory from position i on; breakdowns[i]
\* is what get_item_breakdown returned for detailed_inventory[i]
inventory_tasks(detailed_inventory, breakdowns, i, task_counter) ==
    IF i > Len(detailed_inventory) THEN <<>>
    ELSE LET t == entries_tasks(detailed_inventory[i], breakdowns[i], task_counter)
         IN  t \o inventory_tasks(detailed_inventory, breakdowns, i + 1,
                                  task_counter + Len(t))

RECURSIVE breakdowns_of(_)
\* What the calls of get_item_breakdown can return, one list per section
breakdowns_of(detailed_inventory) ==
    IF detailed_inventory = <<>> THEN {<<>>}
    ELSE { <<b>> \o rest :
             b \in get_item_breakdown(Head(detailed_inventory)),
             rest \in breakdowns_of(Tail(detailed_inventory)) }

\* PlanogramAnalyzer._generate_tasks: the task lists it can return
generate_tasks(detailed_inventory, misplaced_items) ==
    { relocate_tasks(misplaced_items)
        \o inventory_tasks(detailed_inventory, b, 1, Len(misplaced_items) + 1) :
      b \in breakdowns_of(detailed_inventory) }

----------------------------------------------------------------------------
(* AnalysisResults and analyze_image *)

AnalysisResults_fields ==
    {"detected_items", "misplaced_items", "inventory_status",
     "detailed_inventory_status", "item_availability_status", "tasks",
     "annotated_image"}

\* The keyword arguments analyze_image passes to AnalysisResults(...)
analysis_results_kwargs ==
    {"detected_items", "misplaced_items", "detailed_inventory_status", "tasks",
     "annotated_image"}

\* AnalysisResults.create_empty(), which is what _create_empty_results(message)
\* returns whatever the message
create_empty ==
    [detected_items |-> <<>>, misplaced_items |-> <<>>, inventory_status |-> <<>>,
     detailed_inventory_status |-> <<>>, item_availability_status |-> <<>>,
     tasks |-> <<>>, annotated_image |-> None]

RunIdle ==
    [pc |-> "idle", image |-> [w |-> 1080, h |-> 1440], detected_items |-> <<>>,
     misplaced_items |-> <<>>, detailed_inventory_status |-> <<>>, tasks |-> <<>>,
     caught |-> "", results |-> create_empty]

\* One run of the try block of analyze_image from the detected items on: the
\* locals at the point where the run ended, the exception caught and the
\* value returned.  The annotated image is drawn by PIL and taken to succeed.
run_from(sections, image, items) ==
    LET detected_items == assign_items_to_sections(sections, items)
        misplaced_items == find_misplaced_items(sections, detected_items)
        inventory == calculate_detailed_inventory_status(sections, detected_items,
                                                         misplaced_items)
        ctor == dataclass_init(AnalysisResults_fields, AnalysisResults_fields,
                               analysis_results_kwargs)
    IN  IF inventory.raised # ""
        THEN { [pc |-> "done", image |-> image, detected_items |-> detected_items,
                misplaced_items |-> misplaced_items,
                detailed_inventory_status |-> <<>>, tasks |-> <<>>,
                caught |-> inventory.raised, results |-> create_empty] }
        ELSE { [pc |-> "done", image |-> image, detected_items |-> detected_items,
                misplaced_items |-> misplaced_items,
                detailed_inventory_status |-> inventory.value, tasks |-> tasks,
                caught |-> ctor,
                results |->
                   IF ctor # "" THEN create_empty
                   ELSE [detected_items |-> detected_items,
                         misplaced_items |-> misplaced_items,
                         inventory_status |-> <<>>,
                         detailed_inventory_status |-> inventory.value,
                         item_availability_status |-> <<>>,
                         tasks |-> tasks, annotated_image |-> "image"]] :
               tasks \in generate_tasks(inventory.value, misplaced_items) }

\* PlanogramAnalyzer.analyze_image(image): the runs it can make
analyze_image(cfg, image, ready, detections) ==
    IF ~cfg.loaded
    THEN { [RunIdle EXCEPT !.pc = "done", !.image = image] }
    ELSE UNION { run_from(cfg.sections, image, items) :
                 items \in run_object_detection(ready, detections, image) }


----------------------------------------------------------------------------
(* The engine: one analyzer, its configuration and the calls made on it *)

\* The image analysed: half the reference size, so that detections are
\* scaled by 2 on their way to the reference frame.
AnalysisImage == [w |-> 540, h |-> 720]

Detection(class_name, bbox, mask_polygon) ==
    [class_name |-> class_name, bbox |-> bbox, mask_polygon |-> mask_polygon]

\* What the detector can report for one object, in the image's own pixels
\* (reference coordinates in brackets): a box centred at (3, 1), inside the
\* first two regions; a box centred at (7, 1), inside the second; and a box
\* centred at (2, 1) with a mask polygon whose centroid is (2/3, 2/3).
DetectionPool ==
    { Detection(c, b, <<>>) :
        c \in ItemClasses, b \in {BoundingBox(1, 0, 2, 1), BoundingBox(3, 0, 4, 1)} }
    \cup
    { Detection(c, BoundingBox(0, 0, 2, 1),
                << [x |-> 0, y |-> 0], [x |-> 1, y |-> 0], [x |-> 0, y |-> 1] >>) :
        c \in ItemClasses }

DetectionLists == UNION { [1..n -> DetectionPool] : n \in 0..MaxItems }

NoConfig == [loaded |-> FALSE, sections |-> <<>>]

CallIdle ==
    [op |-> "idle", section |-> NoSection, section_id |-> None, doc |-> 0,
     point |-> ZeroPoint, raised |-> "", caught |-> "", ret |-> 0,
     ready |-> FALSE, issues |-> <<>>, started_with |-> NoConfig]

\* The engine is single-threaded: a call is made when no call is in progress,
\* runs to completion and returns.  `call` and `run` show the outcome of the
\* call until it returns.
Idle == call.op = "idle"

\* A load_planogram_config that keeps the configuration it had when the
\* load fails.
load_planogram_config_keeping(cfg, doc) ==
    LET r == load_from_file(<<>>, doc)
    IN  [config |-> IF r.raised = "" THEN [loaded |-> TRUE, sections |-> r.sections]
                    ELSE cfg,
         caught |-> r.raised]

\* PlanogramAnalyzer.load_planogram_config on an analyzer whose self.config
\* is cfg: self.config afterwards and the exception caught, if any.  A new
\* PlanogramConfig is built from the source; any exception leaves
\* self.config = None.
load_planogram_config(cfg, doc) ==
    LET r == load_from_file(<<>>, doc)
    IN  [config |-> IF r.raised = "" THEN [loaded |-> TRUE, sections |-> r.sections]
                    ELSE NoConfig,
         caught |-> r.raised]

\* PlanogramAnalyzer.load_planogram_config(config_name)
LoadPlanogramConfig ==
    \E d \in 1..Len(Docs) :
        LET r == load_planogram_config(config, Docs[d])
        IN  /\ Idle
            /\ config' = r.config
            /\ call' = [CallIdle EXCEPT !.op = "load_planogram_config", !.doc = d,
                                        !.caught = r.caught]
            /\ UNCHANGED <<coord, inv, run>>

\* PlanogramConfig.load_from_file on the loaded configuration
LoadFromFile ==
    /\ Idle
    /\ config.loaded
    /\ \E d \in 1..Len(Docs) :
        LET r == load_from_file(config.sections, Docs[d])
        IN  /\ config' = [config EXCEPT !.sections = r.sections]
            /\ call' = [CallIdle EXCEPT !.op = "load_from_file", !.doc = d,
                                        !.raised = r.raised]
    /\ UNCHANGED <<coord, inv, run>>

\* PlanogramConfig.add_section(section)
AddSection ==
    /\ Idle
    /\ config.loaded
    /\ \E section \in SectionPool :
        LET r == add_section(config.sections, section)
        IN  /\ Len(r.sections) <= MaxSections
            /\ config' = [config EXCEPT !.sections = r.sections]
            /\ call' = [CallIdle EXCEPT !.op = "add_section", !.section = section,
                                        !.raised = r.raised]
    /\ UNCHANGED <<coord, inv, run>>

\* PlanogramConfig.remove_section(section_id)
RemoveSection ==
    /\ Idle
    /\ config.loaded
    /\ \E id \in SectionIds :
        LET r == remove_section(config.sections, id)
        IN  /\ config' = [config EXCEPT !.sections = r.sections]
            /\ call' = [CallIdle EXCEPT !.op = "remove_section", !.section_id = id,
                                        !.ret = IF r.ret THEN 1 ELSE 0]
    /\ UNCHANGED <<coord, inv, run>>

\* PlanogramConfig.find_section_by_position(x, y); ret is the position of the
\* section returned in the section list, 0 for None
FindSectionByPosition ==
    /\ Idle
    /\ config.loaded
    /\ \E p \in Points :
        call' = [CallIdle EXCEPT !.op = "find_section_by_position", !.point = p,
                                 !.ret = find_section_by_position(config.sections, p)]
    /\ UNCHANGED <<coord, inv, config, run>>

\* An analyze_image that leaves the configuration without its sections.
AnalyzeImageClearingSections ==
    /\ Idle
    /\ \E detections \in DetectionLists :
          run' \in analyze_image(config, AnalysisImage, TRUE, detections)
    /\ call' = [CallIdle EXCEPT !.op = "analyze_image", !.ready = TRUE,
                                !.started_with = config]
    /\ config' = [config EXCEPT !.sections = <<>>]
    /\ UNCHANGED <<coord, inv>>

\* PlanogramAnalyzer.analyze_image(image)
AnalyzeImage ==
    /\ Idle
    /\ \/ /\ run' \in analyze_image(config, AnalysisImage, FALSE, <<>>)
          /\ call' = [CallIdle EXCEPT !.op = "analyze_image", !.started_with = config]
       \/ /\ \E detections \in DetectionLists :
                run' \in analyze_image(config, AnalysisImage, TRUE, detections)
          /\ call' = [CallIdle EXCEPT !.op = "analyze_image", !.ready = TRUE,
                                      !.started_with = config]
    /\ UNCHANGED <<coord, inv, config>>

\* The call in progress returns to its caller
Return ==
    /\ ~Idle
    /\ call' = CallIdle
    /\ run' = RunIdle
    /\ UNCHANGED <<coord, inv, config>>

----------------------------------------------------------------------------
(* analyze_image with load_planogram_config called from another thread *)

\* analyze_image holds no copy of the configuration: _assign_items_to_sections,
\* _find_misplaced_items and _calculate_detailed_inventory_status each read
\* self.config when they run.  Here the run is one step per stage, and
\* another thread may assign self.config between two stages.

ShortDetectionLists == { d \in DetectionLists : Len(d) <= 1 }

InFlight == run.pc \in {"assign", "misplaced", "inventory", "tasks"}

\* The except clause of analyze_image
Failed(r, exception) ==
    [r EXCEPT !.pc = "done", !.caught = exception, !.results = create_empty]

\* analyze_image up to the return of _run_object_detection
BeginAnalysis ==
    /\ Idle
    /\ \/ /\ ~config.loaded
          /\ run' = [RunIdle EXCEPT !.pc = "done", !.image = AnalysisImage]
       \/ /\ config.loaded
          /\ \E detections \in ShortDetectionLists :
                \E items \in run_object_detection(TRUE, detections, AnalysisImage) :
                   run' = [RunIdle EXCEPT !.pc = "assign", !.image = AnalysisImage,
                                          !.detected_items = items]
    /\ call' = [CallIdle EXCEPT !.op = "analyze_image", !.ready = TRUE,
                                !.started_with = config]
    /\ UNCHANGED <<coord, inv, config>>

\* self._assign_items_to_sections(detected_items): self.config is read once
\* per item, so not at all when there is no item
AssignStage ==
    /\ run.pc = "assign"
    /\ run' = IF run.detected_items = <<>> THEN [run EXCEPT !.pc = "misplaced"]
              ELSE IF ~config.loaded THEN Failed(run, "AttributeError")
              ELSE [run EXCEPT !.pc = "misplaced",
                               !.detected_items =
                                  assign_items_to_sections(config.sections,
                                                           run.detected_items)]
    /\ UNCHANGED <<coord, inv, config, call>>

\* misplaced_items = self._find_misplaced_items(detected_items)
MisplacedStage ==
    /\ run.pc = "misplaced"
    /\ run' = IF run.detected_items = <<>> THEN [run EXCEPT !.pc = "inventory"]
              ELSE IF ~config.loaded THEN Failed(run, "AttributeError")
              ELSE [run EXCEPT !.pc = "inventory",
                               !.misplaced_items =
                                  find_misplaced_items(config.sections,
                                                       run.detected_items)]
    /\ UNCHANGED <<coord, inv, config, call>>

\* detailed_inventory_status = self._calculate_detailed_inventory_status(...)
InventoryStage ==
    /\ run.pc = "inventory"
    /\ run' = IF ~config.loaded THEN Failed(run, "AttributeError")
              ELSE LET inventory ==
                         calculate_detailed_inventory_status(
                             config.sections, run.detected_items, run.misplaced_items)
                   IN  IF inventory.raised # "" THEN Failed(run, inventory.raised)
                       ELSE [run EXCEPT !.pc = "tasks",
                                        !.detailed_inventory_status = inventory.value]
    /\ UNCHANGED <<coord, inv, config, call>>

\* tasks = self._generate_tasks(...), the annotated image and
\* AnalysisResults(...)
TasksStage ==
    /\ run.pc = "tasks"
    /\ \E tasks \in generate_tasks(run.detailed_inventory_status, run.misplaced_items) :
          LET ctor == dataclass_init(AnalysisResults_fields, AnalysisResults_fields,
                                     analysis_results_kwargs)
          IN  run' = IF ctor # "" THEN Failed([run EXCEPT !.tasks = tasks], ctor)
                     ELSE [run EXCEPT !.pc = "done", !.tasks = tasks,
                             !.results =
                                [detected_items |-> run.detected_items,
                                 misplaced_items |-> run.misplaced_items,
                                 inventory_status |-> <<>>,
                                 detailed_inventory_status |-> run.detailed_inventory_status,
                                 item_availability_status |-> <<>>,
                                 tasks |-> tasks, annotated_image |-> "image"]]
    /\ UNCHANGED <<coord, inv, config, call>>

\* load_planogram_config called by another thread while a run is in flight
ReloadDuringAnalysis ==
    /\ InFlight
    /\ \E d \in 1..Len(Docs) :
          config' = load_planogram_config(config, Docs[d]).config
    /\ UNCHANGED <<coord, inv, call, run>>

\* A call that has run to completion returns
ReturnWhenDone ==
    /\ ~InFlight
    /\ Return

----------------------------------------------------------------------------
(* get_item_breakdown called on a DetailedInventoryStatus object *)

\* dicts {item_type: count} over some of the item classes
Dicts(lo) == UNION { [T -> lo..MaxCount] : T \in SUBSET ItemClasses }

InventoryStatus(expected_items, detected_items, misplaced_items) ==
    [section_id |-> "S1", section_name |-> "S1", expected_items |-> expected_items,
     detected_items |-> detected_items, misplaced_items |-> misplaced_items,
     status |-> "", item_statuses |-> EmptyDict]

InvIdle == [pc |-> "idle", status |-> InventoryStatus(EmptyDict, EmptyDict, EmptyDict),
            breakdown |-> <<>>]

\* Expected counts may be 0 (a section with fewer expected items than types);
\* a detected or misplaced count is present only when at least 1.
InvInputs ==
    { [pc |-> "object", status |-> InventoryStatus(e, d, m), breakdown |-> <<>>] :
        e \in Dicts(0), d \in Dicts(1), m \in Dicts(1) }

\* breakdown = status.get_item_breakdown()
GetItemBreakdown ==
    /\ inv.pc = "object"
    /\ \E b \in get_item_breakdown(inv.status) :
          inv' = [inv EXCEPT !.pc = "breakdown", !.breakdown = b]
    /\ UNCHANGED <<coord, config, call, run>>

----------------------------------------------------------------------------
(* validate_configuration called on a section list *)

\* Sections validate_configuration is run on: well-formed ones and ones
\* with no expected items, a non-positive count, an empty box, or all three.
ValidatePool ==
    { PlanogramSection(id, id, v.items, v.count, v.pos, "Medium") :
        id \in SectionIds,
        v \in { [items |-> <<"cereal">>, count |-> 3, pos |-> BoundingBox(0, 0, 4, 4)],
                [items |-> <<>>, count |-> 3, pos |-> BoundingBox(0, 0, 4, 4)],
                [items |-> <<"cereal">>, count |-> 0, pos |-> BoundingBox(0, 0, 4, 4)],
                [items |-> <<"cereal">>, count |-> 3, pos |-> BoundingBox(4, 0, 4, 4)],
                [items |-> <<>>, count |-> 0 - 1, pos |-> BoundingBox(2, 4, 8, 0)] } }

\* self.sections is a plain list: it can hold any sections, repeated ids
\* included.
ValidateLists == UNION { [1..n -> ValidatePool] : n \in 0..(MaxSections + 1) }

\* issues = config.validate_configuration()
ValidateConfiguration ==
    /\ Idle
    /\ config.loaded
    /\ call' = [CallIdle EXCEPT !.op = "validate_configuration",
                                !.issues = validate_configuration(config.sections)]
    /\ UNCHANGED <<coord, inv, config, run>>

----------------------------------------------------------------------------
(* _generate_tasks called on an inventory status list and a misplaced list *)

\* A DetailedInventoryStatus row of the section with this id
TaskRow(id, expected_items, detected_items, misplaced_items) ==
    [InventoryStatus(expected_items, detected_items, misplaced_items)
        EXCEPT !.section_id = id, !.section_name = id]

\* Rows of section S1: any expected and detected counts over the item
\* classes, any misplaced count of the first class
FirstRows ==
    { TaskRow("S1", e, d, m) :
        e \in Dicts(0), d \in Dicts(1),
        m \in UNION { [T -> 1..MaxCount] : T \in SUBSET {"cereal"} } }

\* Rows of section S2: a type that is sold out; a type found elsewhere only
\* next to a type with more items than expected
SecondRows ==
    { TaskRow("S2", [t \in {"soda_can"} |-> 1], EmptyDict, EmptyDict),
      TaskRow("S2", [t \in {"cereal", "soda_can"} |-> 1],
              [t \in {"soda_can"} |-> 2], [t \in {"cereal"} |-> 1]) }

InventoryLists ==
    {<<>>} \cup { <<r>> : r \in FirstRows }
           \cup { <<r1, r2>> : r1 \in FirstRows, r2 \in SecondRows }

\* Misplaced items: one found outside every section, one found in S1
MisplacedPool ==
    { MisplacedItem(DetectedItem("cereal", BoundingBox(12, 0, 16, 2), <<>>, None),
                    "S1", None, 0),
      MisplacedItem(DetectedItem("soda_can", BoundingBox(2, 0, 4, 2), <<>>, "S1"),
                    "S2", "S1", 0) }

MisplacedLists == UNION { [1..n -> MisplacedPool] : n \in 0..MaxItems }

TaskInputs ==
    { [RunIdle EXCEPT !.pc = "inputs", !.detailed_inventory_status = inventory,
                      !.misplaced_items = misplaced] :
        inventory \in InventoryLists, misplaced \in MisplacedLists }

\* tasks = self._generate_tasks(detailed_inventory_status, misplaced_items)
GenerateTasks ==
    /\ run.pc = "inputs"
    /\ \E tasks \in generate_tasks(run.detailed_inventory_status, run.misplaced_items) :
          run' = [run EXCEPT !.pc = "generated", !.tasks = tasks]
    /\ UNCHANGED <<coord, inv, config, call>>

----------------------------------------------------------------------------
(* Specifications *)

Init ==
    /\ coord = CoordIdle
    /\ inv = InvIdle
    /\ config = NoConfig
    /\ call = CallIdle
    /\ run = RunIdle

Next ==
    \/ LoadPlanogramConfig
    \/ LoadFromFile
    \/ AddSection
    \/ RemoveSection
    \/ FindSectionByPosition
    \/ AnalyzeImage
    \/ Return

\* The engine: configuration operations and analysis runs
Spec == Init /\ [][Next]_vars

InitCoord ==
    /\ coord \in CoordInputs
    /\ inv = InvIdle
    /\ config = NoConfig
    /\ call = CallIdle
    /\ run = RunIdle

NextCoord == OriginalToReference \/ ReferenceToOriginal

\* A box taken to the reference frame and back
SpecCoord == InitCoord /\ [][NextCoord]_vars

InitInventory ==
    /\ coord = CoordIdle
    /\ inv \in InvInputs
    /\ config = NoConfig
    /\ call = CallIdle
    /\ run = RunIdle

NextInventory == GetItemBreakdown

\* get_item_breakdown on every inventory status object within the bounds
SpecInventory == InitInventory /\ [][NextInventory]_vars

InitValidate ==
    /\ coord = CoordIdle
    /\ inv = InvIdle
    /\ config \in { [loaded |-> TRUE, sections |-> s] : s \in ValidateLists }
    /\ call = CallIdle
    /\ run = RunIdle

NextValidate == ValidateConfiguration \/ Return

\* validate_configuration on every section list within the bounds
SpecValidate == InitValidate /\ [][NextValidate]_vars

InitTasks ==
    /\ coord = CoordIdle
    /\ inv = InvIdle
    /\ config = NoConfig
    /\ call = CallIdle
    /\ run \in TaskInputs

NextTasks == GenerateTasks

\* _generate_tasks on the inventory and misplaced lists within the bounds
SpecTasks == InitTasks /\ [][NextTasks]_vars

NextReload ==
    \/ LoadPlanogramConfig
    \/ AddSection
    \/ BeginAnalysis
    \/ AssignStage
    \/ MisplacedStage
    \/ InventoryStage
    \/ TasksStage
    \/ ReloadDuringAnalysis
    \/ ReturnWhenDone

\* Analyses on an analyzer whose configuration another thread reloads
SpecReload == Init /\ [][NextReload]_vars


----------------------------------------------------------------------------
(* Properties: coordinate round trip *)

ScaleAtLeastOne(image) == scale_of(image).num >= scale_of(image).den

Within1(a, b) ==
    /\ Abs(a.x1 - b.x1) <= 1 /\ Abs(a.y1 - b.y1) <= 1
    /\ Abs(a.x2 - b.x2) <= 1 /\ Abs(a.y2 - b.y2) <= 1

----------------------------------------------------------------------------
(* Properties: inventory classification *)

SixStatuses ==
    {"Not Expected", "Sold Out", "Misplaced Only", "Partially Misplaced",
     "Low Stock", "Available"}

\* The rows of the inventory status computed for the section with this id
RowsOf(detailed, section_id) ==
    { r \in 1..Len(detailed) : detailed[r].section_id = section_id }

\* C2: after an analysis, for every section with at least one expected item
\* type the inventory classifier has computed per-type expected counts, and
\* they sum to the section's expected_count.
C2_ExpectedCountsSum ==
    (run.pc = "done" /\ config.loaded) =>
        \A k \in 1..Len(config.sections) :
            Len(config.sections[k].expected_items) >= 1 =>
                \E r \in RowsOf(run.detailed_inventory_status,
                                config.sections[k].section_id) :
                    total_expected(run.detailed_inventory_status[r])
                        = config.sections[k].expected_count

\* C3: after an analysis, every (section, expected item type) pair has
\* exactly one breakdown entry, and its status is one of the six statuses.
C3_OneStatusPerPair ==
    (run.pc = "done" /\ config.loaded) =>
        \A k \in 1..Len(config.sections) :
            \A t \in { config.sections[k].expected_items[i] :
                         i \in 1..Len(config.sections[k].expected_items) } :
                \E r \in RowsOf(run.detailed_inventory_status,
                                config.sections[k].section_id) :
                    \A b \in get_item_breakdown(run.detailed_inventory_status[r]) :
                        /\ Cardinality({ e \in 1..Len(b) : b[e].item_type = t }) = 1
                        /\ \A e \in 1..Len(b) :
                              b[e].item_type = t => b[e].availability_status \in SixStatuses

\* The status the first four rows of the table give, "" when none applies
FirstFourRows(expected, detected, misplaced) ==
    IF expected = 0 THEN "Not Expected"
    ELSE IF detected + misplaced = 0 THEN "Sold Out"
    ELSE IF detected = 0 /\ misplaced > 0 THEN "Misplaced Only"
    ELSE IF detected > 0 /\ detected < expected /\ detected + misplaced >= expected
         THEN "Partially Misplaced"
    ELSE ""

\* C6: every breakdown entry carries the counts of its item type; its status
\* is Not Expected when expected = 0; otherwise Sold Out when detected +
\* misplaced = 0; otherwise Misplaced Only when detected = 0 and
\* misplaced > 0; otherwise Partially Misplaced when 0 < detected < expected
\* and detected + misplaced >= expected; and none of these four otherwise.
C6_FirstMatchWins ==
    inv.pc = "breakdown" =>
        \A e \in 1..Len(inv.breakdown) :
            LET entry == inv.breakdown[e]
                row == FirstFourRows(entry.expected, entry.detected_in_section,
                                     entry.found_elsewhere)
            IN  /\ entry.expected = dict_get(inv.status.expected_items, entry.item_type)
                /\ entry.detected_in_section
                      = dict_get(inv.status.detected_items, entry.item_type)
                /\ entry.found_elsewhere
                      = dict_get(inv.status.misplaced_items, entry.item_type)
                /\ IF row # "" THEN entry.availability_status = row
                   ELSE entry.availability_status
                           \notin {"Not Expected", "Sold Out", "Misplaced Only",
                                   "Partially Misplaced"}

\* A breakdown whose entries include a Partially Misplaced type (some found in
\* the section, the rest elsewhere) next to a Misplaced Only type.
C6_Witness ==
    /\ inv.pc = "breakdown"
    /\ \E e \in 1..Len(inv.breakdown) :
          /\ inv.breakdown[e].availability_status = "Partially Misplaced"
          /\ inv.breakdown[e].detected_in_section = 1
          /\ inv.breakdown[e].found_elsewhere = 1
          /\ inv.breakdown[e].expected = 2
    /\ \E e \in 1..Len(inv.breakdown) :
          inv.breakdown[e].availability_status = "Misplaced Only"

\* C7: when none of the first four rows applies, the status is Low Stock
\* when detected <= 0.5 * expected_visible and misplaced = 0, and Available
\* otherwise (expected_visible being the expected count, its default).
C7_LowStock ==
    inv.pc = "breakdown" =>
        \A e \in 1..Len(inv.breakdown) :
            LET entry == inv.breakdown[e]
            IN  FirstFourRows(entry.expected, entry.detected_in_section,
                              entry.found_elsewhere) = ""
                => entry.availability_status
                     = IF 2 * entry.detected_in_section <= entry.expected
                          /\ entry.found_elsewhere = 0
                       THEN "Low Stock" ELSE "Available"

----------------------------------------------------------------------------
(* Properties: misplacement *)

Lists(section, class_name) ==
    \E i \in 1..Len(section.expected_items) : section.expected_items[i] = class_name

\* The item's class is expected in some section that contains its point
InsideAnExpectedSection(sections, item) ==
    \E k \in 1..Len(sections) :
        /\ Lists(sections[k], item.class_name)
        /\ point_in_bbox(center(item), sections[k].position)

Reported(misplaced_items, item) ==
    \E m \in 1..Len(misplaced_items) : misplaced_items[m].detected_item = item

\* C4: a detected item whose point lies inside any section that lists its
\* class is never reported by the misplacement stage.
C4_NoFalseMisplacement ==
    run.pc = "done" =>
        \A i \in 1..Len(run.detected_items) :
            InsideAnExpectedSection(config.sections, run.detected_items[i])
                => ~Reported(run.misplaced_items, run.detected_items[i])

\* A run in which an item's class is listed by two sections, its point is
\* inside the one that is not the closest, the item is not reported, and
\* another item is.
C4_Witness ==
    /\ run.pc = "done"
    /\ run.misplaced_items # <<>>
    /\ \E i \in 1..Len(run.detected_items) :
          LET item == run.detected_items[i]
              expected_sections == get_sections_for_item(config.sections, item.class_name)
              k == find_closest_expected_section(center(item), expected_sections)
          IN  /\ Len(expected_sections) = 2
              /\ ~point_in_section(center(item), expected_sections[k])
              /\ InsideAnExpectedSection(config.sections, item)
              /\ ~Reported(run.misplaced_items, item)

\* The scenario of C8: one detected item, of a class listed by exactly one
\* section, whose point is outside every section
C8_Scenario ==
    /\ run.pc = "done"
    /\ config.loaded
    /\ Len(run.detected_items) = 1
    /\ Len(get_sections_for_item(config.sections, run.detected_items[1].class_name)) = 1
    /\ find_section_by_position(config.sections, center(run.detected_items[1])) = 0

\* C8: in that scenario the results hold exactly one misplaced item, with
\* expected_section the listing section and actual_section absent, and that
\* section's entry for the class has misplaced 1, detected 0 and status
\* Misplaced Only.
C8_MisplacedOnly ==
    C8_Scenario =>
        LET c == run.detected_items[1].class_name
            S == get_sections_for_item(config.sections, c)[1].section_id
            results == run.results
        IN  /\ Len(results.misplaced_items) = 1
            /\ results.misplaced_items[1].expected_section = S
            /\ results.misplaced_items[1].actual_section = None
            /\ \E r \in RowsOf(results.detailed_inventory_status, S) :
                  \A b \in get_item_breakdown(results.detailed_inventory_status[r]) :
                      \E e \in 1..Len(b) :
                          /\ b[e].item_type = c
                          /\ b[e].found_elsewhere = 1
                          /\ b[e].detected_in_section = 0
                          /\ b[e].availability_status = "Misplaced Only"

----------------------------------------------------------------------------
(* Properties: configuration *)

Containing(sections, p) ==
    { i \in 1..Len(sections) : point_in_bbox(p, sections[i].position) }

\* C5: find_section_by_position returns the first-declared section among
\* those whose region contains the point (None when there is none), so the
\* answer depends on the section list and the point only.
C5_FirstDeclaredWins ==
    call.op = "find_section_by_position" =>
        LET hits == Containing(config.sections, call.point)
        IN  IF hits = {} THEN call.ret = 0
            ELSE call.ret \in hits /\ \A j \in hits : call.ret <= j

\* A lookup of a point that two sections contain.
C5_Witness ==
    /\ call.op = "find_section_by_position"
    /\ Cardinality(Containing(config.sections, call.point)) = 2
    /\ call.ret = 1

\* C9: add_section of a section whose id is already present raises the
\* duplicate-id error and leaves the section list as it was; otherwise the
\* section is appended at the end.
C9_AddSection ==
    [][ call'.op = "add_section" =>
          IF call'.section.section_id \in section_ids(config.sections)
          THEN call'.raised = "ValueError" /\ config'.sections = config.sections
          ELSE call'.raised = "" /\ config'.sections = Append(config.sections, call'.section)
      ]_vars

\* add_section has refused a section that has the id of a section already
\* present and differs from it.
C9_Witness ==
    /\ call.op = "add_section"
    /\ call.raised = "ValueError"
    /\ \E i \in 1..Len(config.sections) :
          /\ config.sections[i].section_id = call.section.section_id
          /\ config.sections[i] # call.section

HasRepeatedId(doc) ==
    \E i, j \in 1..Len(doc.sections) :
        i # j /\ doc.sections[i].section_id = doc.sections[j].section_id

\* C10: the section ids of the configuration are pairwise distinct, and a
\* load of a document in which a section repeats an earlier id is rejected
\* with the duplicate-id error.
C10_UniqueIds ==
    /\ \A i, j \in 1..Len(config.sections) :
          i # j => config.sections[i].section_id # config.sections[j].section_id
    /\ (call.op = "load_from_file" /\ HasRepeatedId(Docs[call.doc]))
          => call.raised = "ValueError"
    /\ (call.op = "load_planogram_config" /\ HasRepeatedId(Docs[call.doc]))
          => call.caught = "ValueError"

----------------------------------------------------------------------------
(* Properties: validation and loading *)

\* The number of sections of the list that have this id
SectionsWithId(sections, id) ==
    Cardinality({ i \in 1..Len(sections) : sections[i].section_id = id })

\* The number of issues of this kind that name this id
IssuesFor(issues, kind, id) ==
    Cardinality({ i \in 1..Len(issues) :
                    issues[i].kind = kind /\ issues[i].section_id = id })

\* C11: validate_configuration returns, for every id that k >= 1 sections
\* share, exactly k - 1 "Duplicate section ID" issues (exactly one for two
\* sections); it returns a list for every section list and leaves the
\* configuration as it was.
C11_DuplicateIssues ==
    /\ [](call.op = "validate_configuration" =>
            \A id \in SectionIds :
                IssuesFor(call.issues, "Duplicate section ID", id)
                    = Max(0, SectionsWithId(config.sections, id) - 1))
    /\ [][call'.op = "validate_configuration" => config' = config]_vars

\* A validation of a configuration in which two sections share one id and a
\* third has another: one duplicate issue for the shared id, none for the
\* other.
C11_Witness ==
    /\ call.op = "validate_configuration"
    /\ Len(config.sections) = 3
    /\ SectionsWithId(config.sections, "S1") = 2
    /\ IssuesFor(call.issues, "Duplicate section ID", "S1") = 1
    /\ IssuesFor(call.issues, "Duplicate section ID", "S2") = 0

\* C12: after a load, every section of the document is in the configuration
\* with an expected_visible_count: the document's value when it gives one,
\* the section's expected_count when it gives none.
C12_VisibleCountDefault ==
    (call.op \in {"load_planogram_config", "load_from_file"}
        /\ Docs[call.doc].file = "ok") =>
        LET datas == Docs[call.doc].sections
        IN  /\ config.loaded
            /\ Len(config.sections) = Len(datas)
            /\ \A i \in 1..Len(datas) :
                  /\ "expected_visible_count" \in DOMAIN config.sections[i]
                  /\ config.sections[i].expected_visible_count
                        = IF datas[i].has_visible THEN datas[i].expected_visible_count
                          ELSE datas[i].expected_count

----------------------------------------------------------------------------
(* Properties: failures *)

\* C13: with no configuration loaded analyze_image returns the empty result,
\* and a load_planogram_config that fails leaves no configuration loaded.
C13_NoConfiguration ==
    /\ (call.op = "analyze_image" /\ ~config.loaded)
          => run.pc = "done" /\ run.results = create_empty
    /\ (call.op = "load_planogram_config" /\ call.caught # "") => ~config.loaded

\* An analysis, with the detector ready, on an analyzer that has no
\* configuration.
C13_Witness ==
    /\ call.op = "analyze_image"
    /\ call.ready
    /\ ~config.loaded
    /\ run.pc = "done"
    /\ run.results.annotated_image = None

\* C14: with a configuration loaded and the detector not ready, the result
\* has no detected and no misplaced items, and its inventory status reports
\* every expected item type of every section as Sold Out.
C14_DetectorAbsent ==
    (call.op = "analyze_image" /\ config.loaded /\ ~call.ready) =>
        /\ run.results.detected_items = <<>>
        /\ run.results.misplaced_items = <<>>
        /\ \A k \in 1..Len(config.sections) :
              \A i \in 1..Len(config.sections[k].expected_items) :
                 \E r \in RowsOf(run.results.detailed_inventory_status,
                                 config.sections[k].section_id) :
                    \A b \in get_item_breakdown(run.results.detailed_inventory_status[r]) :
                       \E e \in 1..Len(b) :
                          /\ b[e].item_type = config.sections[k].expected_items[i]
                          /\ b[e].availability_status = "Sold Out"

\* C15: when a stage of analyze_image fails, the caller receives an empty
\* result that carries a message describing the failure.
C15_ErrorMessage ==
    (call.op = "analyze_image" /\ run.caught # "") =>
        /\ run.results.detected_items = <<>>
        /\ run.results.misplaced_items = <<>>
        /\ run.results.detailed_inventory_status = <<>>
        /\ run.results.tasks = <<>>
        /\ "message" \in DOMAIN run.results
        /\ run.results.message # ""

----------------------------------------------------------------------------
(* Properties: reload during an analysis *)

\* The exception a run on these sections ends with when nothing interferes
CaughtOn(sections) ==
    LET inventory == calculate_detailed_inventory_status(sections, <<>>, <<>>)
    IN  IF inventory.raised # "" THEN inventory.raised
        ELSE dataclass_init(AnalysisResults_fields, AnalysisResults_fields,
                            analysis_results_kwargs)

\* C16: a run that started with a configuration uses that configuration in
\* every stage, whatever is loaded meanwhile: the section assignment and the
\* misplaced items are those of the configuration the run started with, and
\* the run ends as a run on that configuration ends.
C16_ConfigurationSnapshot ==
    (call.op = "analyze_image" /\ call.started_with.loaded) =>
        LET sections == call.started_with.sections
            assigned == assign_items_to_sections(sections, run.detected_items)
        IN  /\ run.pc \in {"misplaced", "inventory", "tasks"}
                  => run.detected_items = assigned
            /\ run.pc \in {"inventory", "tasks"}
                  => run.misplaced_items = find_misplaced_items(sections, assigned)
            /\ run.pc = "done" => run.caught = CaughtOn(sections)

----------------------------------------------------------------------------
(* Properties: task generation *)

\* The positions of the tasks of this type
TasksOfType(tasks, type) == { n \in 1..Len(tasks) : tasks[n].task_type = type }

\* The positions of the tasks of this type made for this (section, item type)
TasksFor(tasks, type, section_id, item_type) ==
    { n \in TasksOfType(tasks, type) :
        tasks[n].section_id = section_id /\ tasks[n].description[2] = item_type }

\* The (row, item type) pairs of an inventory status list
Pairs(detailed) ==
    { <<r, t>> : r \in 1..Len(detailed), t \in ItemClasses } \cap
    UNION { { <<r, t>> : t \in all_item_types(detailed[r]) } : r \in 1..Len(detailed) }

Expected(row, t) == dict_get(row.expected_items, t)
Detected(row, t) == dict_get(row.detected_items, t)
Elsewhere(row, t) == dict_get(row.misplaced_items, t)

\* The status of the table for a pair
TableStatus(row, t) ==
    LET four == FirstFourRows(Expected(row, t), Detected(row, t), Elsewhere(row, t))
    IN  IF four # "" THEN four
        ELSE IF 2 * Detected(row, t) <= Expected(row, t) /\ Elsewhere(row, t) = 0
             THEN "Low Stock" ELSE "Available"

\* C17: the tasks hold exactly one Relocate task per misplaced item, in the
\* order of the items, each with priority Medium, effort 5, the item's
\* expected section as target, and a description naming the section the item
\* is in ("unknown" when in none) and the expected section.
C17_RelocateTasks ==
    run.pc = "generated" =>
        /\ Cardinality(TasksOfType(run.tasks, "Relocate")) = Len(run.misplaced_items)
        /\ \A i \in 1..Len(run.misplaced_items) :
              LET task == run.tasks[i]
                  item == run.misplaced_items[i]
              IN  /\ task.task_type = "Relocate"
                  /\ task.priority = "Medium"
                  /\ task.estimated_time = 5
                  /\ task.section_id = item.expected_section
                  /\ task.description[2] = item.detected_item.class_name
                  /\ task.description[4] = (IF item.actual_section = None THEN "unknown"
                                            ELSE item.actual_section)
                  /\ task.description[6] = item.expected_section

\* Two equal misplaced items, found in S1 and expected in S2, each with a
\* Relocate task of its own.
C17_Witness ==
    /\ run.pc = "generated"
    /\ Len(run.misplaced_items) = 2
    /\ run.misplaced_items[1] = run.misplaced_items[2]
    /\ run.misplaced_items[1].actual_section = "S1"
    /\ Cardinality(TasksOfType(run.tasks, "Relocate")) = 2
    /\ run.tasks[2].description[4] = "S1"
    /\ run.tasks[2].description[6] = "S2"

\* C18: every (section, item type) whose status is Sold Out has exactly one
\* Restock task, of priority High and effort 10; every one whose status is
\* Low Stock has exactly one, of priority Medium and effort 8; no other pair
\* has a Restock task.
C18_RestockTasks ==
    run.pc = "generated" =>
        \A p \in Pairs(run.detailed_inventory_status) :
            LET row == run.detailed_inventory_status[p[1]]
                status == TableStatus(row, p[2])
                made == TasksFor(run.tasks, "Restock", row.section_id, p[2])
            IN  IF status = "Sold Out"
                THEN /\ Cardinality(made) = 1
                     /\ \A n \in made : run.tasks[n].priority = "High"
                                        /\ run.tasks[n].estimated_time = 10
                ELSE IF status = "Low Stock"
                THEN /\ Cardinality(made) = 1
                     /\ \A n \in made : run.tasks[n].priority = "Medium"
                                        /\ run.tasks[n].estimated_time = 8
                ELSE made = {}

\* C19: every (section, item type) whose status is Misplaced Only or
\* Partially Misplaced has exactly one Check task, of priority Medium and
\* effort 7; no other pair has a Check task.
C19_CheckTasks ==
    run.pc = "generated" =>
        /\ \A p \in Pairs(run.detailed_inventory_status) :
              LET row == run.detailed_inventory_status[p[1]]
                  made == TasksFor(run.tasks, "Check", row.section_id, p[2])
              IN  IF TableStatus(row, p[2]) \in {"Misplaced Only", "Partially Misplaced"}
                  THEN /\ Cardinality(made) = 1
                       /\ \A n \in made : run.tasks[n].priority = "Medium"
                                          /\ run.tasks[n].estimated_time = 7
                  ELSE made = {}
        /\ \A n \in TasksOfType(run.tasks, "Check") :
              \E p \in Pairs(run.detailed_inventory_status) :
                 n \in TasksFor(run.tasks, "Check",
                                run.detailed_inventory_status[p[1]].section_id, p[2])

\* One section with a type partly found elsewhere next to a sold-out type,
\* another with a type found elsewhere only: two Check tasks in all.
C19_Witness ==
    /\ run.pc = "generated"
    /\ \E r \in 1..Len(run.detailed_inventory_status) :
          LET row == run.detailed_inventory_status[r]
          IN  /\ TableStatus(row, "cereal") = "Partially Misplaced"
              /\ TableStatus(row, "soda_can") = "Sold Out"
              /\ Cardinality(TasksFor(run.tasks, "Check", row.section_id, "cereal")) = 1
    /\ \E r \in 1..Len(run.detailed_inventory_status) :
          LET row == run.detailed_inventory_status[r]
          IN  /\ TableStatus(row, "cereal") = "Misplaced Only"
              /\ Cardinality(TasksFor(run.tasks, "Check", row.section_id, "cereal")) = 1
    /\ Cardinality(TasksOfType(run.tasks, "Check")) = 2

\* C20: every (section, item type) with a surplus (detected + misplaced
\* greater than expected) has exactly one Remove task, of priority Low and
\* effort 5.
C20_RemoveTasks ==
    run.pc = "generated" =>
        \A p \in Pairs(run.detailed_inventory_status) :
            LET row == run.detailed_inventory_status[p[1]]
                made == TasksFor(run.tasks, "Remove", row.section_id, p[2])
            IN  Detected(row, p[2]) + Elsewhere(row, p[2]) > Expected(row, p[2])
                => /\ Cardinality(made) = 1
                   /\ \A n \in made : run.tasks[n].priority = "Low"
                                      /\ run.tasks[n].estimated_time = 5

\* The order in which the item types are declared
DeclaredTypes == <<"cereal", "soda_can">>

\* The breakdown of a row with its item types in declaration order
DeclaredBreakdown(row) ==
    LET types == SelectSeq(DeclaredTypes, LAMBDA t : t \in all_item_types(row))
    IN  [i \in 1..Len(types) |-> breakdown_entry(row, types[i])]

\* C21: the task list is the Relocate tasks in the order of the misplaced
\* items, followed by the inventory tasks in the order of the sections and,
\* within a section, of its item types; and task generation can return no
\* other list for the same misplaced items and inventory status.
C21_TaskOrder ==
    run.pc = "generated" =>
        /\ run.tasks =
              relocate_tasks(run.misplaced_items)
                 \o inventory_tasks(run.detailed_inventory_status,
                                    [r \in 1..Len(run.detailed_inventory_status) |->
                                        DeclaredBreakdown(run.detailed_inventory_status[r])],
                                    1, Len(run.misplaced_items) + 1)
        /\ \A tasks \in generate_tasks(run.detailed_inventory_status,
                                       run.misplaced_items) : tasks = run.tasks

----------------------------------------------------------------------------
(* Properties: misplaced items and section assignment *)

\* C22: the expected_section of every misplaced item is the section, among
\* those listing the item's class, whose region center is nearest to the
\* item's point (the first-declared one among equally near ones), and the
\* item's distance_from_expected is that distance.
C22_ExpectedSection ==
    run.pc = "done" =>
        \A n \in 1..Len(run.misplaced_items) :
            LET misplaced == run.misplaced_items[n]
                p == center(misplaced.detected_item)
                expected_sections ==
                    get_sections_for_item(config.sections,
                                          misplaced.detected_item.class_name)
            IN  \E k \in 1..Len(expected_sections) :
                   /\ expected_sections[k].section_id = misplaced.expected_section
                   /\ \A j \in 1..Len(expected_sections) :
                         /\ distance2(p, expected_sections[k])
                               <= distance2(p, expected_sections[j])
                         /\ j < k => distance2(p, expected_sections[k])
                                        < distance2(p, expected_sections[j])
                   /\ misplaced.distance_from_expected * misplaced.distance_from_expected
                         * (2 * p.d) * (2 * p.d)
                      = distance2(p, expected_sections[k])

\* No section lists the class
Ungoverned(sections, class_name) ==
    \A k \in 1..Len(sections) : ~Lists(sections[k], class_name)

\* C23: a detected item whose class no section lists is never reported as
\* misplaced, and no Relocate task is made for its class, wherever its point
\* lies.
C23_UngovernedClasses ==
    run.pc = "done" =>
        \A i \in 1..Len(run.detected_items) :
            LET item == run.detected_items[i]
                tasks == relocate_tasks(run.misplaced_items) \o run.tasks
            IN  Ungoverned(config.sections, item.class_name) =>
                   /\ ~Reported(run.misplaced_items, item)
                   /\ \A n \in TasksOfType(tasks, "Relocate") :
                         tasks[n].description[2] # item.class_name

\* A run with two items outside every section: one of a class no section
\* lists, not reported, and one of a listed class, reported.
C23_Witness ==
    /\ run.pc = "done"
    /\ config.sections # <<>>
    /\ \E i, j \in 1..Len(run.detected_items) :
          /\ Ungoverned(config.sections, run.detected_items[i].class_name)
          /\ run.detected_items[i].section_id = None
          /\ ~Reported(run.misplaced_items, run.detected_items[i])
          /\ run.detected_items[j].section_id = None
          /\ Reported(run.misplaced_items, run.detected_items[j])

\* The representative point of an item: the mean of the polygon's vertices
\* when it has at least three, else the center of the box
RepresentativePoint(item) ==
    IF Len(item.mask_polygon) >= 3
    THEN [nx |-> SumX(item.mask_polygon), ny |-> SumY(item.mask_polygon),
          d |-> Len(item.mask_polygon)]
    ELSE [nx |-> item.bbox.x1 + item.bbox.x2, ny |-> item.bbox.y1 + item.bbox.y2, d |-> 2]

\* The position of the first-declared section containing the point, 0 when
\* there is none
FirstContaining(sections, p) ==
    IF Containing(sections, p) = {} THEN 0
    ELSE CHOOSE k \in Containing(sections, p) : \A j \in Containing(sections, p) : k <= j

\* C24: after the assignment stage every detected item's section_id is the
\* id of the first-declared section whose region contains the item's
\* representative point, or None when no region contains it, whether or not
\* that section lists the item's class.
C24_SectionAssignment ==
    (run.pc = "done" /\ config.loaded) =>
        \A i \in 1..Len(run.detected_items) :
            LET item == run.detected_items[i]
                k == FirstContaining(config.sections, RepresentativePoint(item))
            IN  item.section_id = IF k = 0 THEN None ELSE config.sections[k].section_id

\* An item with a polygon whose centroid is in another section than the
\* center of its box, assigned by the centroid to a section that does not
\* list its class.
C24_Witness ==
    /\ run.pc = "done"
    /\ \E i \in 1..Len(run.detected_items) :
          LET item == run.detected_items[i]
              k == FirstContaining(config.sections, RepresentativePoint(item))
              b == FirstContaining(config.sections, bbox_center(item.bbox))
          IN  /\ Len(item.mask_polygon) >= 3
              /\ k # 0 /\ b # 0 /\ k # b
              /\ item.section_id = config.sections[k].section_id
              /\ ~Lists(config.sections[k], item.class_name)

\* C28: the actual_section of a misplaced item is never its
\* expected_section, so no Relocate task moves an item from a section to the
\* same section.
C28_ActualDiffersFromExpected ==
    run.pc = "done" =>
        /\ \A n \in 1..Len(run.misplaced_items) :
              run.misplaced_items[n].actual_section
                 # run.misplaced_items[n].expected_section
        /\ LET tasks == relocate_tasks(run.misplaced_items)
           IN  \A n \in 1..Len(tasks) : tasks[n].description[4] # tasks[n].description[6]

\* A misplaced item found inside one section and expected in another, next
\* to one found outside every section.
C28_Witness ==
    /\ run.pc = "done"
    /\ \E n \in 1..Len(run.misplaced_items) :
          /\ run.misplaced_items[n].actual_section \in SectionIds
          /\ run.misplaced_items[n].expected_section \in SectionIds
          /\ run.misplaced_items[n].actual_section
                # run.misplaced_items[n].expected_section
    /\ \E n \in 1..Len(run.misplaced_items) :
          run.misplaced_items[n].actual_section = None

----------------------------------------------------------------------------
(* Properties: the run and the configuration, counting, result rows *)

\* C26: an analysis run does not change the configuration: while
\* analyze_image is the call in progress, up to its return, on the normal
\* and on the error path, the configuration is the one the call started
\* with, and the return leaves it as it is.
C26_ConfigurationUntouched ==
    /\ [](call.op = "analyze_image" => config = call.started_with)
    /\ [][call.op = "analyze_image" => config' = config]_vars

\* An analysis of detected items with two sections that ended in the except
\* clause, the two sections still there.
C26_Witness ==
    /\ call.op = "analyze_image"
    /\ run.pc = "done"
    /\ run.caught # ""
    /\ run.detected_items # <<>>
    /\ Len(config.sections) = 2
    /\ config = call.started_with

RECURSIVE SumDetected(_)
\* The sum of total_detected over the rows
SumDetected(rows) ==
    IF rows = <<>> THEN 0 ELSE total_detected(Head(rows)) + SumDetected(Tail(rows))

RECURSIVE SumMisplaced(_)
\* The sum of total_misplaced over the rows
SumMisplaced(rows) ==
    IF rows = <<>> THEN 0 ELSE total_misplaced(Head(rows)) + SumMisplaced(Tail(rows))

\* C25: in the detailed inventory status of an analysis every section has
\* one row whose detected cells count the items assigned to the section, by
\* class, and whose misplaced cells count the misplaced items expected in it,
\* by class; the total_detected of the rows sum to the number of items
\* assigned to a section and the total_misplaced to the number of misplaced
\* items.
C25_NoDoubleCounting ==
    (run.pc = "done" /\ config.loaded) =>
        LET rows == run.detailed_inventory_status
        IN  /\ \A k \in 1..Len(config.sections) :
                  /\ Cardinality(RowsOf(rows, config.sections[k].section_id)) = 1
                  /\ \A r \in RowsOf(rows, config.sections[k].section_id) :
                        \A t \in ItemClasses :
                           /\ dict_get(rows[r].detected_items, t)
                                = Cardinality({ i \in 1..Len(run.detected_items) :
                                     /\ run.detected_items[i].section_id = rows[r].section_id
                                     /\ run.detected_items[i].class_name = t })
                           /\ dict_get(rows[r].misplaced_items, t)
                                = Cardinality({ i \in 1..Len(run.misplaced_items) :
                                     /\ run.misplaced_items[i].expected_section = rows[r].section_id
                                     /\ run.misplaced_items[i].detected_item.class_name = t })
            /\ SumDetected(rows)
                  = Cardinality({ i \in 1..Len(run.detected_items) :
                                     run.detected_items[i].section_id # None })
            /\ SumMisplaced(rows) = Len(run.misplaced_items)

\* C27: a detected item of a class some section lists, not reported as
\* misplaced, is counted as detected under a section that lists its class.
\* The counts are those of the classifier's counting loop,
\* section_item_counts.
C27_CountedWhereExpected ==
    run.pc = "done" =>
        \A i \in 1..Len(run.detected_items) :
            LET item == run.detected_items[i]
            IN  (~Ungoverned(config.sections, item.class_name)
                   /\ ~Reported(run.misplaced_items, item)) =>
                \E k \in 1..Len(config.sections) :
                    /\ Lists(config.sections[k], item.class_name)
                    /\ item.section_id = config.sections[k].section_id
                    /\ dict_get(detected_counts(run.detected_items,
                                                config.sections[k].section_id),
                                item.class_name) >= 1

\* Two points are the same point
SamePoint(p, q) == p.nx * q.d = q.nx * p.d /\ p.ny * q.d = q.ny * p.d

\* C29: the center in the row of a misplaced item is the representative
\* point of the item, the one that decided its section and its misplacement,
\* and so the center in the row of the same detected item.
C29_MisplacedRowCenter ==
    run.pc = "done" =>
        \A n \in 1..Len(run.misplaced_items) :
            LET m == run.misplaced_items[n]
            IN  /\ SamePoint(MisplacedItem_to_dict(m).center,
                             RepresentativePoint(m.detected_item))
                /\ SamePoint(MisplacedItem_to_dict(m).center,
                             DetectedItem_to_dict(m.detected_item).center)

\* C30: for every section with at least one expected item type and an
\* expected_visible_count between 0 and its expected_count, the row of the
\* section gives every type an expected_visible value at most its expected
\* value, and the expected_visible values sum to expected_visible_count.
C30_VisibleSplit ==
    (run.pc = "done" /\ config.loaded) =>
        \A k \in 1..Len(config.sections) :
            LET section == config.sections[k]
            IN  Len(section.expected_items) >= 1 =>
                   /\ "expected_visible_count" \in DOMAIN section
                   /\ (section.expected_visible_count \in 0..section.expected_count) =>
                        \E r \in RowsOf(run.detailed_inventory_status, section.section_id) :
                           LET row == run.detailed_inventory_status[r]
                           IN  /\ \A t \in DOMAIN row.expected_visible_items :
                                     row.expected_visible_items[t]
                                        <= dict_get(row.expected_items, t)
                               /\ dict_sum(row.expected_visible_items)
                                     = section.expected_visible_count

============================================================================
